---- MODULE Spec2Model ----
(***************************************************************************)
(* Plant-Pet firmware (ESP32, Arduino): calibration of two analog          *)
(* readings, the composite "happiness" score, the Pushover alert           *)
(* hysteresis, the 10-minute aggregation window, delivery to InfluxDB and  *)
(* Supabase, and connectToWiFi with its restart.                           *)
(*                                                                         *)
(* The model follows src/unnamed/part_000 (the variant with the alert      *)
(* logic).  src/main_2.0/main_2.0.ino is the same program without the      *)
(* alert logic and with sendToSupabase(avgSoil, avgLight, avgScore);       *)
(* src/main_workingcode/main_workingcode.ino has calibration, score and    *)
(* mood only.                                                              *)
(***************************************************************************)
EXTENDS Integers, Sequences, FiniteSets, TLC

VARIABLES
    pc,             \* position of the single thread of control
    wifi,           \* WiFi.status(): "connected" (WL_CONNECTED) or "disconnected"
    attempt,        \* connectToWiFi: local attempt
    timeout,        \* connectToWiFi: local timeout of the last polling loop
    connRet,        \* where connectToWiFi returns to
    millis,         \* millis(), unsigned long
    soilRaw, ldrRaw,            \* loop: analogRead results
    soilPct, lightPct, score,   \* loop: locals of the tick
    alertSent,                  \* global alertSent
    aggSoilSum, aggLightSum, aggScoreSum, aggCount, lastSendMs,  \* globals
    now,                        \* loop: local now
    avgSoil, avgLight, avgScore,\* loop: locals, <<numerator, denominator>>
    mood,                       \* argument of the last drawFace of the tick
    pushKind,       \* notification handed to sendPushoverAlert in this tick
    pushOutcome,    \* how sendPushoverAlert ended in this tick
    influxOutcome, supaOutcome, \* how sendToInflux / sendToSupabase ended
    influxPayload, supaPayload, \* fields of the bodies POSTed in this tick
    ticks,          \* number of loop() iterations started since power-on
    restarts,       \* number of ESP.restart() since power-on
    window,         \* samples aggregated since the last emission (or boot)
    notifs,         \* sendPushoverAlert calls since boot: [tick, kind]
    alertBefore,    \* alertSent when the tick started
    accTicks,       \* number of aggregations since power-on
    accBoot,        \* number of aggregations since boot
    abortedTicks,   \* loop() iterations ended by ESP.restart(), since power-on
    emittedCount,   \* total of the divisors of the emissions since boot
    emissions,      \* number of window resets since boot
    scoreHist,      \* scores fed to the alert check since boot
    sinceEmit,      \* ms that millis() advanced since the last window reset (or boot)
    connCalls,      \* connectToWiFi calls of each caller in this tick
    emitCycles,     \* times the emission branch was entered, since boot
    sends           \* calls of sendToInflux / sendToSupabase since boot

vars == <<pc, wifi, attempt, timeout, connRet, millis, soilRaw, ldrRaw,
          soilPct, lightPct, score, alertSent, aggSoilSum, aggLightSum,
          aggScoreSum, aggCount, lastSendMs, now, avgSoil, avgLight, avgScore,
          mood, pushKind, pushOutcome, influxOutcome, supaOutcome,
          influxPayload, supaPayload, ticks, restarts, window, notifs,
          alertBefore, accTicks, accBoot, abortedTicks, emittedCount,
          emissions, scoreHist, sinceEmit, connCalls, emitCycles, sends>>

(***************************************************************************)
(* Bounds of the model.                                                    *)
(***************************************************************************)
MaxTicks == 3
MaxRestarts == 1
MaxSeqLen == 6

(***************************************************************************)
(* Program constants.                                                      *)
(***************************************************************************)
SOIL_WET_RAW == 700
SOIL_DRY_RAW == 2300
LDR_DARK_RAW == 450
LDR_BRIGHT_RAW == 3000
MAX_RETRY_ATTEMPTS == 5
POLL_LIMIT == 20
HAPPINESS_THRESHOLD == 40
RECOVERY_MARGIN == 5
LOG_INTERVAL_MS == 600000
ADC_MAX == 4095

(***************************************************************************)
(* Machine integers.  long and int are 32 bit on the ESP32, unsigned long  *)
(* is 32 bit.  The model checker's own integers are 32 bit as well, so     *)
(* 32-bit results are computed in 16-bit halves, and an unsigned long is   *)
(* the pair <<high half, low half>>.                                       *)
(***************************************************************************)
INT_MAX == (2^30 - 1) + 2^30
INT_MIN == -INT_MAX - 1
HALF == 2^16

Abs(x) == IF x < 0 THEN -x ELSE x

\* a - b in int: does it overflow, and the two's-complement result if so.
SubOverflows(a, b) ==
    IF b >= 0 THEN a < INT_MIN + b ELSE a > INT_MAX + b
WrapSub(a, b) ==
    IF ~SubOverflows(a, b) THEN a - b
    ELSE IF b >= 0 THEN (a - INT_MIN) + ((INT_MAX - b) + 1)
    ELSE (a - INT_MAX) + ((INT_MIN - b) - 1)

\* a * b in int for 0 < b < 2^15: does it overflow, and the
\* two's-complement result in any case.
MulOverflows(a, b) == a > INT_MAX \div b \/ a < -(INT_MAX \div b)
WrapMul(a, b) ==
    LET lo == (a % HALF) * b
        hi == (((a \div HALF) * b) + (lo \div HALF)) % HALF
    IN  IF hi >= HALF \div 2 THEN ((hi - HALF) * HALF) + (lo % HALF)
        ELSE (hi * HALF) + (lo % HALF)

\* unsigned long arithmetic, modulo 2^32.
U32(n) == << n \div HALF, n % HALF >>
U32Add(a, d) ==
    LET lo == a[2] + d
    IN  << (a[1] + (lo \div HALF)) % HALF, lo % HALF >>
U32Sub(a, b) ==
    LET lo == a[2] - b[2]
    IN  << ((a[1] - b[1]) + (lo \div HALF)) % HALF, lo % HALF >>
U32Geq(a, b) == a[1] > b[1] \/ (a[1] = b[1] /\ a[2] >= b[2])

\* C integer division: the quotient is truncated toward zero.
TruncDiv(a, b) ==
    IF (a >= 0) = (b > 0) THEN Abs(a) \div Abs(b) ELSE -(Abs(a) \div Abs(b))

(***************************************************************************)
(* Calibration.                                                            *)
(***************************************************************************)
\* What a signed overflow in map() can leave in its 32-bit result: the
\* two's-complement wrap of the arithmetic, or any other 32-bit value
\* (the overflow is undefined behaviour); a few representatives of those.
OverflowOutcomes(x, in_min, in_max, out_min, out_max) ==
    { TruncDiv(WrapMul(WrapSub(x, in_min), out_max - out_min), in_max - in_min)
        + out_min,
      INT_MIN, -1, 0, 1, 50, 100, 101, INT_MAX }

\* Arduino map(): (x - in_min) * (out_max - out_min) / (in_max - in_min) + out_min
\* in long arithmetic.  The set of the values it can return.
map(x, in_min, in_max, out_min, out_max) ==
    LET run   == in_max - in_min
        rise  == out_max - out_min
    IN  IF ~SubOverflows(x, in_min) /\ ~MulOverflows(x - in_min, rise)
        THEN { TruncDiv((x - in_min) * rise, run) + out_min }
        ELSE OverflowOutcomes(x, in_min, in_max, out_min, out_max)

\* clampPct without its upper bound.
clampPctNoUpper(v) == IF v < 0 THEN 0 ELSE v

clampPct(v) == IF v < 0 THEN 0 ELSE (IF v > 100 THEN 100 ELSE v)

\* soilToPct with the two calibration points in the order of lightToPct.
soilToPctSwapped(raw) ==
    { clampPct(v) : v \in map(raw, SOIL_WET_RAW, SOIL_DRY_RAW, 0, 100) }

soilToPct(raw) == { clampPct(v) : v \in map(raw, SOIL_DRY_RAW, SOIL_WET_RAW, 0, 100) }

lightToPct(raw) == { clampPct(v) : v \in map(raw, LDR_DARK_RAW, LDR_BRIGHT_RAW, 0, 100) }

(***************************************************************************)
(* Score.  int score = (soilPct * 7.7 + lightPct * 2.5) / 10 is computed   *)
(* in double and truncated.  For 0 <= soilPct, lightPct <= 100 the double  *)
(* result truncates to the same integer as the exact quotient              *)
(* (77 * soilPct + 25 * lightPct) / 100: the exact quotient is an integer  *)
(* only for soilPct in {0, 25, 50, 75, 100}, where soilPct * 7.7 is exact  *)
(* in double, and is otherwise at least 1/100 away from an integer.        *)
(***************************************************************************)
\* The score with the light term subtracted.
ScoreLightSubtracted(s, l) == TruncDiv(77 * s - 25 * l, 100)

Score(s, l) == TruncDiv(77 * s + 25 * l, 100)

\* The mood with strict comparisons.
MoodOfStrict(sc) ==
    IF sc > 70 THEN "HAPPY"
    ELSE IF sc > 45 THEN "OK"
    ELSE IF sc > 25 THEN "ANGRY"
    ELSE "DEAD"

\* Mood face of the tick.
MoodOf(sc) ==
    IF sc >= 70 THEN "HAPPY"
    ELSE IF sc >= 45 THEN "OK"
    ELSE IF sc >= 25 THEN "ANGRY"
    ELSE "DEAD"

(***************************************************************************)
(* Alert logic of loop(): happiness = (float)score is compared with        *)
(* HAPPINESS_THRESHOLD and HAPPINESS_THRESHOLD + RECOVERY_MARGIN; scores   *)
(* are small integers, exact in float.                                     *)
(***************************************************************************)
\* The alert logic with the recovery margin left out of the comparison.
AlertKindNoMargin(happiness, sent) ==
    IF happiness < HAPPINESS_THRESHOLD
    THEN (IF ~sent THEN "degraded" ELSE "none")
    ELSE IF happiness > HAPPINESS_THRESHOLD
    THEN (IF sent THEN "recovered" ELSE "none")
    ELSE "none"

\* Which notification the tick hands to sendPushoverAlert, if any.
AlertKind(happiness, sent) ==
    IF happiness < HAPPINESS_THRESHOLD
    THEN (IF ~sent THEN "degraded" ELSE "none")
    ELSE IF happiness > HAPPINESS_THRESHOLD + RECOVERY_MARGIN
    THEN (IF sent THEN "recovered" ELSE "none")
    ELSE "none"

\* The alert logic without alertSent = true after the degraded alert.
AlertSentAfterNeverSet(happiness, sent) ==
    IF happiness < HAPPINESS_THRESHOLD
    THEN sent
    ELSE IF happiness > HAPPINESS_THRESHOLD + RECOVERY_MARGIN
    THEN FALSE
    ELSE sent

\* The alert logic with a plain else that clears alertSent.
AlertSentAfterNoBand(happiness, sent) ==
    IF happiness < HAPPINESS_THRESHOLD
    THEN (IF ~sent THEN TRUE ELSE sent)
    ELSE FALSE

\* alertSent when the alert logic of the tick is through.
AlertSentAfter(happiness, sent) ==
    IF happiness < HAPPINESS_THRESHOLD
    THEN (IF ~sent THEN TRUE ELSE sent)
    ELSE IF happiness > HAPPINESS_THRESHOLD + RECOVERY_MARGIN
    THEN FALSE
    ELSE sent

(***************************************************************************)
(* Aggregation and emission helpers.                                       *)
(***************************************************************************)
\* An accumulation that adds its operand twice.
AccumulateTwice(sum, x) == sum + x + x

\* aggXSum += x
Accumulate(sum, x) == sum + x

\* The test with > in place of >=.
WindowElapsedStrict(n, last) == ~U32Geq(U32(LOG_INTERVAL_MS), U32Sub(n, last))

\* The test against a deadline lastSendMs + LOG_INTERVAL_MS.
WindowElapsedByDeadline(n, last) == U32Geq(n, U32Add(last, LOG_INTERVAL_MS))

\* The test without the subtraction of lastSendMs: time since boot.
WindowElapsedSinceBoot(n, last) == U32Geq(n, U32(LOG_INTERVAL_MS))

\* now - lastSendMs >= LOG_INTERVAL_MS in unsigned long arithmetic
WindowElapsed(n, last) == U32Geq(U32Sub(n, last), U32(LOG_INTERVAL_MS))

\* An average over one sample more than were counted.
AvgOfOneMore(sum, count) == <<sum, count + 1>>

\* float(sum) / count, kept as <<numerator, denominator>>: the float
\* quotient is the float nearest to the exact quotient.
AvgOf(sum, count) == <<sum, count>>
NoAvg == <<0, 0>>

\* String(avg, 1): one decimal, rounded; in tenths.
Tenths(avg) == (20 * avg[1] + avg[2]) \div (2 * avg[2])
\* (int)avg
IntOf(avg) == TruncDiv(avg[1], avg[2])

\* The fields of the body that sendToInflux / sendToSupabase build from
\* their three arguments.
PayloadOf(aSoil, aLight, aScore) ==
    [soil_pct |-> Tenths(aSoil), ldr_pct |-> Tenths(aLight), happiness |-> IntOf(aScore)]

\* A loop() iteration lasts the two slides, 2500 ms and 25 * 100 ms, plus
\* whatever the blocking calls take; the model lets an iteration last the
\* two slides or a whole logging interval.
TickDurations == { 2500 + 25 * 100, LOG_INTERVAL_MS }

\* Raw readings of the two pins offered to the ticks of Spec:
\* (wet, bright) -> score 102, (dry, dark) -> score 0, (1500, 960) -> score 43.
SampleRaws == { <<SOIL_WET_RAW, LDR_BRIGHT_RAW>>, <<SOIL_DRY_RAW, LDR_DARK_RAW>>,
                <<1500, 960>> }

PushResults == { "begin_failed", "http_200", "http_500", "transport_error" }
InfluxResults == { "begin_failed", "http_204", "http_400", "http_500", "transport_error" }
SupabaseResults == { "begin_failed", "http_201", "http_204", "http_500", "transport_error" }

\* The callers that could reach connectToWiFi, none of them having called.
Callers == { "setup", "push", "influx", "supabase" }
NoCalls == [c \in Callers |-> 0]
\* The two telemetry senders, none of them having been called.
NoSends == [influx |-> 0, supabase |-> 0]

(***************************************************************************)
(* Initial state: the globals as initialised, setup() about to run.        *)
(***************************************************************************)
Init ==
    /\ pc = "setup"
    /\ wifi = "disconnected"
    /\ attempt = 0 /\ timeout = 0 /\ connRet = "none"
    /\ millis = U32(0)
    /\ soilRaw = 0 /\ ldrRaw = 0 /\ soilPct = 0 /\ lightPct = 0 /\ score = 0
    /\ alertSent = FALSE
    /\ aggSoilSum = 0 /\ aggLightSum = 0 /\ aggScoreSum = 0 /\ aggCount = 0
    /\ lastSendMs = U32(0)
    /\ now = U32(0)
    /\ avgSoil = NoAvg /\ avgLight = NoAvg /\ avgScore = NoAvg
    /\ mood = "none"
    /\ pushKind = "none" /\ pushOutcome = "none"
    /\ influxOutcome = "none" /\ supaOutcome = "none"
    /\ influxPayload = <<>> /\ supaPayload = <<>>
    /\ ticks = 0 /\ restarts = 0
    /\ window = <<>> /\ notifs = <<>>
    /\ alertBefore = FALSE
    /\ accTicks = 0 /\ accBoot = 0 /\ abortedTicks = 0
    /\ emittedCount = 0 /\ emissions = 0
    /\ scoreHist = <<>>
    /\ sinceEmit = 0
    /\ connCalls = NoCalls
    /\ emitCycles = 0
    /\ sends = NoSends

connVars == <<attempt, timeout, connRet>>
sampleVars == <<soilRaw, ldrRaw, soilPct, lightPct, score>>
aggVars == <<aggSoilSum, aggLightSum, aggScoreSum, aggCount, lastSendMs>>
emitVars == <<now, avgSoil, avgLight, avgScore>>
sinkVars == <<influxOutcome, supaOutcome, influxPayload, supaPayload>>
pushVars == <<pushKind, pushOutcome>>
histVars == <<ticks, restarts, window, notifs, alertBefore, accTicks, accBoot,
              abortedTicks, emittedCount, emissions, scoreHist>>

(***************************************************************************)
(* setup()                                                                 *)
(***************************************************************************)
\* Serial.begin; delay(1000); connectToWiFi();
Setup ==
    /\ pc = "setup"
    /\ sinceEmit' = sinceEmit + 1000
    /\ connCalls' = [connCalls EXCEPT !["setup"] = @ + 1]
    /\ UNCHANGED <<emitCycles, sends>>
    /\ millis' = U32Add(millis, 1000)
    /\ connRet' = "setup_display"
    /\ pc' = "conn_start"
    /\ UNCHANGED <<wifi, attempt, timeout, sampleVars, alertSent, aggVars,
                   emitVars, mood, pushVars, sinkVars, histVars>>

\* setupOTA; display.begin: not found -> while (true) delay(1000);
\* found -> greeting, delay(1500), loop() starts.
SetupDisplay ==
    /\ pc = "setup_display"
    /\ \/ /\ pc' = "sample"
          /\ millis' = U32Add(millis, 1500)
          /\ sinceEmit' = sinceEmit + 1500
       \/ /\ pc' = "halt"
          /\ millis' = millis
          /\ sinceEmit' = sinceEmit
    /\ UNCHANGED <<connCalls, emitCycles, sends>>
    /\ UNCHANGED <<wifi, connVars, sampleVars, alertSent, aggVars, emitVars,
                   mood, pushVars, sinkVars, histVars>>

(***************************************************************************)
(* connectToWiFi()                                                         *)
(***************************************************************************)
\* int attempt = 0; WiFi.mode(WIFI_STA); WiFi.disconnect(true);
ConnStart ==
    /\ pc = "conn_start"
    /\ UNCHANGED <<sinceEmit, connCalls, emitCycles, sends>>
    /\ attempt' = 0
    /\ timeout' = 0
    /\ wifi' = "disconnected"
    /\ pc' = "conn_loop"
    /\ UNCHANGED <<connRet, millis, sampleVars, alertSent, aggVars, emitVars,
                   mood, pushVars, sinkVars, histVars>>

\* The loop head without attempt++.
ConnBeginNoCount ==
    /\ pc = "conn_loop"
    /\ attempt < MAX_RETRY_ATTEMPTS
    /\ timeout' = 0
    /\ pc' = "conn_poll"
    /\ UNCHANGED <<wifi, attempt, connRet, millis, sampleVars, alertSent,
                   aggVars, emitVars, mood, pushVars, sinkVars, histVars,
                   sinceEmit, connCalls, emitCycles, sends>>

\* while (attempt < MAX_RETRY_ATTEMPTS) { attempt++; WiFi.begin(...);
\* int timeout = 0;
ConnBegin ==
    /\ pc = "conn_loop"
    /\ attempt < MAX_RETRY_ATTEMPTS
    /\ attempt' = attempt + 1
    /\ timeout' = 0
    /\ pc' = "conn_poll"
    /\ UNCHANGED <<wifi, connRet, millis, sampleVars, alertSent, aggVars,
                   emitVars, mood, pushVars, sinkVars, histVars, sinceEmit,
                   connCalls, emitCycles, sends>>

\* One pass of the polling loop:
\* while (WiFi.status() != WL_CONNECTED && timeout < 20) { delay(500); timeout++; }
\* The link may come up during the delay.  The model lets the last poll of
\* the last attempt fail only while restarts are left.
ConnPoll ==
    /\ pc = "conn_poll"
    /\ wifi # "connected"
    /\ timeout < POLL_LIMIT
    /\ timeout' = timeout + 1
    /\ \/ wifi' = "connected"
       \/ /\ wifi' = "disconnected"
          /\ (attempt = MAX_RETRY_ATTEMPTS /\ timeout + 1 = POLL_LIMIT)
                => restarts < MaxRestarts
    /\ UNCHANGED <<pc, attempt, connRet, millis, sampleVars, alertSent,
                   aggVars, emitVars, mood, pushVars, sinkVars, histVars,
                   sinceEmit, connCalls, emitCycles, sends>>

\* The polling loop is left: if (WiFi.status() == WL_CONNECTED) return;
\* (the locals die with the call), else "Failed, retrying...",
\* delay(RETRY_DELAY), and the while loop tests attempt again.
ConnCheck ==
    /\ pc = "conn_poll"
    /\ wifi = "connected" \/ timeout >= POLL_LIMIT
    /\ IF wifi = "connected"
       THEN /\ attempt' = 0
            /\ timeout' = 0
            /\ pc' = connRet
            /\ connRet' = "none"
       ELSE /\ pc' = "conn_loop"
            /\ UNCHANGED <<attempt, timeout, connRet>>
    /\ UNCHANGED <<wifi, millis, sampleVars, alertSent, aggVars, emitVars,
                   mood, pushVars, sinkVars, histVars, sinceEmit, connCalls,
                   emitCycles, sends>>

\* The loop is left with attempt = MAX_RETRY_ATTEMPTS and the function
\* returns to its caller without the restart.
ConnReturnsAfterRetries ==
    /\ pc = "conn_loop"
    /\ attempt >= MAX_RETRY_ATTEMPTS
    /\ attempt' = 0
    /\ timeout' = 0
    /\ pc' = connRet
    /\ connRet' = "none"
    /\ UNCHANGED <<wifi, millis, sampleVars, alertSent, aggVars, emitVars,
                   mood, pushVars, sinkVars, histVars, sinceEmit, connCalls,
                   emitCycles, sends>>

\* The loop is left with attempt = MAX_RETRY_ATTEMPTS: delay(2000);
\* ESP.restart().  Every global is back at its initialiser.
ConnRestart ==
    /\ pc = "conn_loop"
    /\ attempt >= MAX_RETRY_ATTEMPTS
    /\ pc' = "setup"
    /\ wifi' = "disconnected"
    /\ attempt' = 0 /\ timeout' = 0 /\ connRet' = "none"
    /\ millis' = U32(0)
    /\ soilRaw' = 0 /\ ldrRaw' = 0 /\ soilPct' = 0 /\ lightPct' = 0 /\ score' = 0
    /\ alertSent' = FALSE
    /\ aggSoilSum' = 0 /\ aggLightSum' = 0 /\ aggScoreSum' = 0 /\ aggCount' = 0
    /\ lastSendMs' = U32(0)
    /\ now' = U32(0)
    /\ avgSoil' = NoAvg /\ avgLight' = NoAvg /\ avgScore' = NoAvg
    /\ mood' = "none"
    /\ pushKind' = "none" /\ pushOutcome' = "none"
    /\ influxOutcome' = "none" /\ supaOutcome' = "none"
    /\ influxPayload' = <<>> /\ supaPayload' = <<>>
    /\ restarts' = restarts + 1
    /\ window' = <<>> /\ notifs' = <<>>
    /\ alertBefore' = FALSE
    /\ accBoot' = 0 /\ emittedCount' = 0 /\ emissions' = 0
    /\ scoreHist' = <<>>
    /\ sinceEmit' = 0 /\ connCalls' = NoCalls
    /\ emitCycles' = 0 /\ sends' = NoSends
    /\ abortedTicks' = IF connRet = "push_recheck" THEN abortedTicks + 1
                       ELSE abortedTicks
    /\ UNCHANGED <<ticks, accTicks>>

(***************************************************************************)
(* loop()                                                                  *)
(***************************************************************************)
\* analogRead of both pins, soilToPct, lightToPct, score.  S: the raw
\* pairs the pins can deliver.
ReadSensors(S) ==
    /\ pc = "sample"
    /\ connCalls' = NoCalls
    /\ UNCHANGED <<sinceEmit, emitCycles, sends>>
    /\ ticks < MaxTicks
    /\ \E r \in S : \E sp \in soilToPct(r[1]) : \E lp \in lightToPct(r[2]) :
          /\ soilRaw' = r[1]
          /\ ldrRaw' = r[2]
          /\ soilPct' = sp
          /\ lightPct' = lp
          /\ score' = Score(sp, lp)
    /\ ticks' = ticks + 1
    /\ alertBefore' = alertSent
    /\ now' = U32(0)
    /\ avgSoil' = NoAvg /\ avgLight' = NoAvg /\ avgScore' = NoAvg
    /\ mood' = "none"
    /\ pushKind' = "none" /\ pushOutcome' = "none"
    /\ influxOutcome' = "none" /\ supaOutcome' = "none"
    /\ influxPayload' = <<>> /\ supaPayload' = <<>>
    /\ pc' = "alert"
    /\ UNCHANGED <<wifi, connVars, millis, alertSent, aggVars, restarts,
                   window, notifs, accTicks, accBoot, abortedTicks,
                   emittedCount, emissions, scoreHist>>

\* The alert logic with alertSent assigned before the call of
\* sendPushoverAlert.
AlertCheckSetsFirst ==
    /\ pc = "alert"
    /\ UNCHANGED <<sinceEmit, connCalls, emitCycles, sends>>
    /\ scoreHist' = Append(scoreHist, score)
    /\ alertSent' = AlertSentAfter(score, alertSent)
    /\ LET kind == AlertKind(score, alertSent)
       IN  IF kind = "none"
           THEN /\ pc' = "aggregate"
                /\ UNCHANGED <<pushKind, notifs>>
           ELSE /\ pushKind' = kind
                /\ notifs' = Append(notifs, [tick |-> ticks, kind |-> kind])
                /\ pc' = "push_entry"
    /\ UNCHANGED <<wifi, connVars, millis, sampleVars, aggVars, emitVars, mood,
                   pushOutcome, sinkVars, ticks, restarts, window, alertBefore,
                   accTicks, accBoot, abortedTicks, emittedCount, emissions>>

\* The alert logic up to the call of sendPushoverAlert, or all of it when
\* no notification is due.
AlertCheck ==
    /\ pc = "alert"
    /\ UNCHANGED <<sinceEmit, connCalls, emitCycles, sends>>
    /\ scoreHist' = Append(scoreHist, score)
    /\ LET kind == AlertKind(score, alertSent)
       IN  IF kind = "none"
           THEN /\ alertSent' = AlertSentAfter(score, alertSent)
                /\ pc' = "aggregate"
                /\ UNCHANGED <<pushKind, notifs>>
           ELSE /\ pushKind' = kind
                /\ notifs' = Append(notifs, [tick |-> ticks, kind |-> kind])
                /\ pc' = "push_entry"
                /\ UNCHANGED alertSent
    /\ UNCHANGED <<wifi, connVars, millis, sampleVars, aggVars, emitVars, mood,
                   pushOutcome, sinkVars, ticks, restarts, window, alertBefore,
                   accTicks, accBoot, abortedTicks, emittedCount, emissions>>

\* sendPushoverAlert giving up when the link is down, as the telemetry
\* senders do, without a call of connectToWiFi.
PushEntryNoReconnect ==
    /\ pc = "push_entry"
    /\ IF wifi # "connected"
       THEN /\ pc' = "alert_done"
            /\ pushOutcome' = "no_link"
       ELSE /\ pc' = "push_post"
            /\ UNCHANGED pushOutcome
    /\ UNCHANGED <<wifi, connVars, millis, sampleVars, alertSent, aggVars,
                   emitVars, mood, pushKind, sinkVars, histVars, sinceEmit,
                   connCalls, emitCycles, sends>>

\* sendPushoverAlert: if (WiFi.status() != WL_CONNECTED) connectToWiFi();
PushEntry ==
    /\ pc = "push_entry"
    /\ connCalls' = IF wifi # "connected"
                    THEN [connCalls EXCEPT !["push"] = @ + 1]
                    ELSE connCalls
    /\ UNCHANGED <<sinceEmit, emitCycles, sends>>
    /\ IF wifi # "connected"
       THEN /\ pc' = "conn_start"
            /\ connRet' = "push_recheck"
       ELSE /\ pc' = "push_post"
            /\ UNCHANGED connRet
    /\ UNCHANGED <<wifi, attempt, timeout, millis, sampleVars, alertSent,
                   aggVars, emitVars, mood, pushVars, sinkVars, histVars>>

\* sendPushoverAlert after connectToWiFi returned:
\* if (WiFi.status() != WL_CONNECTED) { "aborting alert"; return; }
PushRecheck ==
    /\ pc = "push_recheck"
    /\ UNCHANGED <<sinceEmit, connCalls, emitCycles, sends>>
    /\ IF wifi # "connected"
       THEN /\ pushOutcome' = "no_link"
            /\ pc' = "alert_done"
       ELSE /\ pc' = "push_post"
            /\ UNCHANGED pushOutcome
    /\ UNCHANGED <<wifi, connVars, millis, sampleVars, alertSent, aggVars,
                   emitVars, mood, pushKind, sinkVars, histVars>>

\* sendPushoverAlert: http.begin (may fail: return), http.POST, http.end.
PushPost ==
    /\ pc = "push_post"
    /\ UNCHANGED <<sinceEmit, connCalls, emitCycles, sends>>
    /\ \E o \in PushResults : pushOutcome' = o
    /\ pc' = "alert_done"
    /\ UNCHANGED <<wifi, connVars, millis, sampleVars, alertSent, aggVars,
                   emitVars, mood, pushKind, sinkVars, histVars>>

\* The assignment to alertSent made only after a delivered notification.
AlertDoneOnlyIfDelivered ==
    /\ pc = "alert_done"
    /\ alertSent' = IF pushOutcome = "http_200"
                    THEN AlertSentAfter(score, alertSent)
                    ELSE alertSent
    /\ pc' = "aggregate"
    /\ UNCHANGED <<wifi, connVars, millis, sampleVars, aggVars, emitVars, mood,
                   pushVars, sinkVars, histVars, sinceEmit, connCalls,
                   emitCycles, sends>>

\* The assignment to alertSent that follows the call of sendPushoverAlert.
AlertDone ==
    /\ pc = "alert_done"
    /\ UNCHANGED <<sinceEmit, connCalls, emitCycles, sends>>
    /\ alertSent' = AlertSentAfter(score, alertSent)
    /\ pc' = "aggregate"
    /\ UNCHANGED <<wifi, connVars, millis, sampleVars, aggVars, emitVars, mood,
                   pushVars, sinkVars, histVars>>

\* aggSoilSum += soilPct; aggLightSum += lightPct; aggScoreSum += score;
\* aggCount++;
Aggregate ==
    /\ pc = "aggregate"
    /\ UNCHANGED <<sinceEmit, connCalls, emitCycles, sends>>
    /\ aggSoilSum' = Accumulate(aggSoilSum, soilPct)
    /\ aggLightSum' = Accumulate(aggLightSum, lightPct)
    /\ aggScoreSum' = Accumulate(aggScoreSum, score)
    /\ aggCount' = Accumulate(aggCount, 1)
    /\ window' = Append(window, [soil |-> soilPct, light |-> lightPct, score |-> score])
    /\ accTicks' = accTicks + 1
    /\ accBoot' = accBoot + 1
    /\ pc' = "emit"
    /\ UNCHANGED <<wifi, connVars, millis, sampleVars, alertSent, lastSendMs,
                   emitVars, mood, pushVars, sinkVars, ticks, restarts, notifs,
                   alertBefore, abortedTicks, emittedCount, emissions,
                   scoreHist>>

\* unsigned long now = millis();
\* if (now - lastSendMs >= LOG_INTERVAL_MS && aggCount > 0) { averages ... }
EmitCheck ==
    /\ pc = "emit"
    /\ emitCycles' = IF WindowElapsed(millis, lastSendMs) /\ aggCount > 0
                     THEN emitCycles + 1 ELSE emitCycles
    /\ UNCHANGED <<sinceEmit, connCalls, sends>>
    /\ now' = millis
    /\ IF WindowElapsed(millis, lastSendMs) /\ aggCount > 0
       THEN /\ avgSoil' = AvgOf(aggSoilSum, aggCount)
            /\ avgLight' = AvgOf(aggLightSum, aggCount)
            /\ avgScore' = AvgOf(aggScoreSum, aggCount)
            /\ pc' = "influx"
       ELSE /\ UNCHANGED <<avgSoil, avgLight, avgScore>>
            /\ pc' = "render"
    /\ UNCHANGED <<wifi, connVars, millis, sampleVars, alertSent, aggVars, mood,
                   pushVars, sinkVars, histVars>>

\* sendToInflux followed by sendToSupabase only when it succeeded.
SendToInfluxStopOnFailure ==
    /\ pc = "influx"
    /\ sends' = [sends EXCEPT !.influx = @ + 1]
    /\ UNCHANGED <<sinceEmit, connCalls, emitCycles>>
    /\ IF wifi # "connected"
       THEN /\ influxOutcome' = "skipped"
            /\ UNCHANGED influxPayload
       ELSE \E o \in InfluxResults :
               /\ influxOutcome' = o
               /\ influxPayload' = IF o = "begin_failed" THEN <<>>
                                   ELSE << PayloadOf(avgSoil, avgLight, avgScore) >>
    /\ pc' = IF influxOutcome' = "http_204" THEN "supabase" ELSE "reset"
    /\ UNCHANGED <<wifi, connVars, millis, sampleVars, alertSent, aggVars,
                   emitVars, mood, pushVars, supaOutcome, supaPayload, histVars>>

\* sendToInflux(avgSoil, avgLight, avgScore)
SendToInflux ==
    /\ pc = "influx"
    /\ sends' = [sends EXCEPT !.influx = @ + 1]
    /\ UNCHANGED <<sinceEmit, connCalls, emitCycles>>
    /\ IF wifi # "connected"
       THEN /\ influxOutcome' = "skipped"
            /\ UNCHANGED influxPayload
       ELSE \E o \in InfluxResults :
               /\ influxOutcome' = o
               /\ influxPayload' = IF o = "begin_failed" THEN <<>>
                                   ELSE << PayloadOf(avgSoil, avgLight, avgScore) >>
    /\ pc' = "supabase"
    /\ UNCHANGED <<wifi, connVars, millis, sampleVars, alertSent, aggVars,
                   emitVars, mood, pushVars, supaOutcome, supaPayload, histVars>>

\* sendToSupabase(avgSoil, avgScore, avgScore): the call passes avgScore
\* as the second argument, avgLight.
SendToSupabase ==
    /\ pc = "supabase"
    /\ sends' = [sends EXCEPT !.supabase = @ + 1]
    /\ UNCHANGED <<sinceEmit, connCalls, emitCycles>>
    /\ IF wifi # "connected"
       THEN /\ supaOutcome' = "skipped"
            /\ UNCHANGED supaPayload
       ELSE \E o \in SupabaseResults :
               /\ supaOutcome' = o
               /\ supaPayload' = IF o = "begin_failed" THEN <<>>
                                 ELSE << PayloadOf(avgSoil, avgScore, avgScore) >>
    /\ pc' = "reset"
    /\ UNCHANGED <<wifi, connVars, millis, sampleVars, alertSent, aggVars,
                   emitVars, mood, pushVars, influxOutcome, influxPayload,
                   histVars>>

\* The reset made only when sendToInflux succeeded, the window kept for a
\* retry otherwise.
ResetWindowKeepsOnFailure ==
    /\ pc = "reset"
    /\ IF influxOutcome = "http_204"
       THEN /\ aggSoilSum' = 0 /\ aggLightSum' = 0 /\ aggScoreSum' = 0
            /\ aggCount' = 0
            /\ lastSendMs' = now
            /\ window' = <<>>
            /\ emittedCount' = emittedCount + avgSoil[2]
            /\ emissions' = emissions + 1
            /\ sinceEmit' = 0
       ELSE UNCHANGED <<aggVars, window, emittedCount, emissions, sinceEmit>>
    /\ pc' = "render"
    /\ UNCHANGED <<wifi, connVars, millis, sampleVars, alertSent, emitVars,
                   mood, pushVars, sinkVars, ticks, restarts, notifs,
                   alertBefore, accTicks, accBoot, abortedTicks, scoreHist,
                   connCalls, emitCycles, sends>>

\* aggSoilSum = aggLightSum = aggScoreSum = 0; aggCount = 0; lastSendMs = now;
ResetWindow ==
    /\ pc = "reset"
    /\ sinceEmit' = 0
    /\ UNCHANGED <<connCalls, emitCycles, sends>>
    /\ aggSoilSum' = 0 /\ aggLightSum' = 0 /\ aggScoreSum' = 0
    /\ aggCount' = 0
    /\ lastSendMs' = now
    /\ window' = <<>>
    /\ emittedCount' = emittedCount + avgSoil[2]
    /\ emissions' = emissions + 1
    /\ pc' = "render"
    /\ UNCHANGED <<wifi, connVars, millis, sampleVars, alertSent, emitVars,
                   mood, pushVars, sinkVars, ticks, restarts, notifs,
                   alertBefore, accTicks, accBoot, abortedTicks, scoreHist>>

\* Slide 1 (2500 ms), the mood face, 25 * delay(100).
Render ==
    /\ pc = "render"
    /\ mood' = MoodOf(score)
    /\ \E d \in TickDurations :
          /\ millis' = U32Add(millis, d)
          /\ sinceEmit' = sinceEmit + d
    /\ pc' = "sample"
    /\ UNCHANGED <<connCalls, emitCycles, sends>>
    /\ UNCHANGED <<wifi, connVars, sampleVars, alertSent, aggVars, emitVars,
                   pushVars, sinkVars, histVars>>

(***************************************************************************)
(* The radio link, outside connectToWiFi: it may drop, and the WiFi        *)
(* library may bring it back by itself, also between the status test of    *)
(* sendPushoverAlert and the first statement of the connectToWiFi it       *)
(* calls.                                                                  *)
(***************************************************************************)
InConnect == pc \in {"conn_start", "conn_loop", "conn_poll"}

LinkDrop ==
    /\ ~InConnect
    /\ UNCHANGED <<sinceEmit, connCalls, emitCycles, sends>>
    /\ pc \notin {"setup", "halt"}
    /\ wifi = "connected"
    /\ wifi' = "disconnected"
    /\ UNCHANGED <<pc, connVars, millis, sampleVars, alertSent, aggVars,
                   emitVars, mood, pushVars, sinkVars, histVars>>

LinkUp ==
    /\ ~InConnect \/ (pc = "conn_start" /\ connRet = "push_recheck")
    /\ UNCHANGED <<sinceEmit, connCalls, emitCycles, sends>>
    /\ pc \notin {"setup", "halt"}
    /\ wifi = "disconnected"
    /\ wifi' = "connected"
    /\ UNCHANGED <<pc, connVars, millis, sampleVars, alertSent, aggVars,
                   emitVars, mood, pushVars, sinkVars, histVars>>

Next ==
    \/ Setup
    \/ SetupDisplay
    \/ ConnStart
    \/ ConnBegin
    \/ ConnPoll
    \/ ConnCheck
    \/ ConnRestart
    \/ ReadSensors(SampleRaws)
    \/ AlertCheck
    \/ PushEntry
    \/ PushRecheck
    \/ PushPost
    \/ AlertDone
    \/ Aggregate
    \/ EmitCheck
    \/ SendToInflux
    \/ SendToSupabase
    \/ ResetWindow
    \/ Render
    \/ LinkDrop
    \/ LinkUp

Spec == Init /\ [][Next]_vars

(***************************************************************************)
(* The program under fair scheduling, for what it is bound to do.  The     *)
(* raw pairs are the two extremes: (wet, bright) -> score 102 and          *)
(* (dry, dark) -> score 0, enough for both notifications, the restart and  *)
(* the emission.                                                           *)
(***************************************************************************)
FairRaws == { <<SOIL_WET_RAW, LDR_BRIGHT_RAW>>, <<SOIL_DRY_RAW, LDR_DARK_RAW>> }

\* The steps of the thread of control: every step but those of the radio
\* link.
Program ==
    \/ Setup \/ SetupDisplay
    \/ ConnStart \/ ConnBegin \/ ConnPoll \/ ConnCheck \/ ConnRestart
    \/ ReadSensors(FairRaws)
    \/ AlertCheck \/ PushEntry \/ PushRecheck \/ PushPost \/ AlertDone
    \/ Aggregate \/ EmitCheck \/ SendToInflux \/ SendToSupabase
    \/ ResetWindow \/ Render

NextFair == Program \/ LinkDrop \/ LinkUp

\* The processor keeps executing: every delay() and every HTTP call of the
\* program returns, so a step of the thread that stays possible is taken.
SpecFair == Init /\ [][NextFair]_vars /\ WF_vars(Program)

(***************************************************************************)
(* The calibration and the score on their own: the first iteration of      *)
(* loop() after setup(), with every raw code the 12-bit converter can      *)
(* deliver on both pins, every pair of raw codes that gives a pair of      *)
(* percentages, and raw values far outside the calibration points.         *)
(***************************************************************************)
AdcCodes == 0 .. ADC_MAX

FarRaws == { INT_MIN, INT_MIN + SOIL_DRY_RAW - 1, INT_MIN + SOIL_DRY_RAW,
             -30000000, -21474837 + LDR_DARK_RAW, -21474836 + LDR_DARK_RAW,
             -1000000, -1, ADC_MAX + 1, 1000000,
             21474836 + SOIL_DRY_RAW, 21474837 + SOIL_DRY_RAW,
             30000000, INT_MAX }

\* 2300 - 16 p reads p percent of soil, 450 + ceil(25.5 q) reads q percent
\* of light.
PctGrid == { << SOIL_DRY_RAW - 16 * p, LDR_DARK_RAW + ((51 * q + 1) \div 2) >> :
               p \in 0 .. 100, q \in 0 .. 100 }

PureRaws == { <<r, r>> : r \in AdcCodes \cup FarRaws } \cup PctGrid

\* loop() about to run for the first time: setup() took 1000 + 1500 ms.
InitLoop ==
    /\ pc = "sample"
    /\ wifi = "connected"
    /\ attempt = 0 /\ timeout = 0 /\ connRet = "none"
    /\ millis = U32(2500)
    /\ soilRaw = 0 /\ ldrRaw = 0 /\ soilPct = 0 /\ lightPct = 0 /\ score = 0
    /\ alertSent = FALSE
    /\ aggSoilSum = 0 /\ aggLightSum = 0 /\ aggScoreSum = 0 /\ aggCount = 0
    /\ lastSendMs = U32(0)
    /\ now = U32(0)
    /\ avgSoil = NoAvg /\ avgLight = NoAvg /\ avgScore = NoAvg
    /\ mood = "none"
    /\ pushKind = "none" /\ pushOutcome = "none"
    /\ influxOutcome = "none" /\ supaOutcome = "none"
    /\ influxPayload = <<>> /\ supaPayload = <<>>
    /\ ticks = 0 /\ restarts = 0
    /\ window = <<>> /\ notifs = <<>>
    /\ alertBefore = FALSE
    /\ accTicks = 0 /\ accBoot = 0 /\ abortedTicks = 0
    /\ emittedCount = 0 /\ emissions = 0
    /\ scoreHist = <<>>
    /\ sinceEmit = 2500
    /\ connCalls = NoCalls
    /\ emitCycles = 0
    /\ sends = NoSends

NextCal == ReadSensors(PureRaws)

SpecCal == InitLoop /\ [][NextCal]_vars

(***************************************************************************)
(* The alert logic on its own: one tick's alert logic per step, fed with   *)
(* a score, sendPushoverAlert returning.                                   *)
(***************************************************************************)
AlertScores == { 35, 40, 42, 45, 47, 50, 60 }

AlertTick(S) ==
    /\ pc = "sample"
    /\ UNCHANGED <<sinceEmit, connCalls, emitCycles, sends>>
    /\ Len(scoreHist) < MaxSeqLen
    /\ \E sc \in S :
          /\ score' = sc
          /\ scoreHist' = Append(scoreHist, sc)
          /\ pushKind' = AlertKind(sc, alertSent)
          /\ notifs' = IF AlertKind(sc, alertSent) = "none" THEN notifs
                       ELSE Append(notifs, [tick |-> ticks + 1,
                                            kind |-> AlertKind(sc, alertSent)])
          /\ alertSent' = AlertSentAfter(sc, alertSent)
    /\ ticks' = ticks + 1
    /\ alertBefore' = alertSent
    /\ UNCHANGED <<pc, wifi, connVars, millis, soilRaw, ldrRaw, soilPct,
                   lightPct, aggVars, emitVars, mood, pushOutcome, sinkVars,
                   restarts, window, accTicks, accBoot, abortedTicks,
                   emittedCount, emissions>>

NextAlert == AlertTick(AlertScores)

SpecAlert == InitLoop /\ [][NextAlert]_vars

(***************************************************************************)
(* The mood face on its own: loop() of main_workingcode.ino, which reads,  *)
(* computes the score, shows slide 1 and draws the face.  The raw pairs    *)
(* give every score from 0 to 102: dark with every soil percentage, wet    *)
(* with every light percentage.                                            *)
(***************************************************************************)
MoodRaws == { r \in PctGrid : r[2] = LDR_DARK_RAW \/ r[1] = SOIL_WET_RAW }

\* slide 1 (2500 ms); if (score >= 70) drawFace("HAPPY") ...; delay(2500);
ShowMood ==
    /\ pc = "alert"
    /\ mood' = MoodOf(score)
    /\ millis' = U32Add(millis, 2500 + 2500)
    /\ sinceEmit' = sinceEmit + 2500 + 2500
    /\ pc' = "sample"
    /\ UNCHANGED <<wifi, connVars, sampleVars, alertSent, aggVars, emitVars,
                   pushVars, sinkVars, histVars, connCalls, emitCycles, sends>>

NextMood == ReadSensors(MoodRaws) \/ ShowMood

SpecMood == InitLoop /\ [][NextMood]_vars

(***************************************************************************)
(* The program around the wrap of millis(), 2^32 ms (49.7 days) after      *)
(* boot: loop() about to run, the tick before having reset the window.     *)
(* The window is empty and the time since the reset is the length of that  *)
(* tick's slides.  The history counters count from here.                   *)
(***************************************************************************)
\* lastSendMs as a distance below 2^32, and the ms gone since:
\* millis() short of the wrap, millis() past the wrap with part of an
\* interval gone, millis() past the wrap with exactly an interval gone.
WrapStarts == { [below |-> 300000, since |-> 2500 + 25 * 100],
                [below |-> 2500, since |-> 2500 + 25 * 100],
                [below |-> 300000, since |-> LOG_INTERVAL_MS] }

InitNearWrap ==
    /\ pc = "sample"
    /\ wifi = "connected"
    /\ attempt = 0 /\ timeout = 0 /\ connRet = "none"
    /\ \E w \in WrapStarts :
          /\ lastSendMs = U32Sub(U32(0), U32(w.below))
          /\ millis = U32Add(U32Sub(U32(0), U32(w.below)), w.since)
          /\ sinceEmit = w.since
    /\ soilRaw = 0 /\ ldrRaw = 0 /\ soilPct = 0 /\ lightPct = 0 /\ score = 0
    /\ alertSent = FALSE
    /\ aggSoilSum = 0 /\ aggLightSum = 0 /\ aggScoreSum = 0 /\ aggCount = 0
    /\ now = U32(0)
    /\ avgSoil = NoAvg /\ avgLight = NoAvg /\ avgScore = NoAvg
    /\ mood = "none"
    /\ pushKind = "none" /\ pushOutcome = "none"
    /\ influxOutcome = "none" /\ supaOutcome = "none"
    /\ influxPayload = <<>> /\ supaPayload = <<>>
    /\ ticks = 0 /\ restarts = 0
    /\ window = <<>> /\ notifs = <<>>
    /\ alertBefore = FALSE
    /\ accTicks = 0 /\ accBoot = 0 /\ abortedTicks = 0
    /\ emittedCount = 0 /\ emissions = 0
    /\ scoreHist = <<>>
    /\ connCalls = NoCalls
    /\ emitCycles = 0
    /\ sends = NoSends

SpecWrap == InitNearWrap /\ [][Next]_vars

(***************************************************************************)
(* Properties.                                                             *)
(***************************************************************************)
RECURSIVE SumSeq(_)
SumSeq(xs) == IF xs = <<>> THEN 0 ELSE xs[1] + SumSeq(Tail(xs))

SoilOf(w) == [i \in 1 .. Len(w) |-> w[i].soil]
LightOf(w) == [i \in 1 .. Len(w) |-> w[i].light]
ScoreOf(w) == [i \in 1 .. Len(w) |-> w[i].score]

\* avg is the arithmetic mean of xs.
IsMean(avg, xs) == avg[2] > 0 /\ avg[1] * Len(xs) = SumSeq(xs) * avg[2]

ThisSample == [soil |-> soilPct, light |-> lightPct, score |-> score]

\* The tick's alert logic has decided and the tick is still running.
AlertDecided ==
    \/ pc \in {"push_entry", "push_recheck", "push_post", "alert_done",
               "aggregate", "emit", "influx", "supabase", "reset", "render"}
    \/ (InConnect /\ connRet = "push_recheck")

\* A tick has read its sample and has not reached the aggregation yet.
BeforeAggregate ==
    \/ pc \in {"alert", "push_entry", "push_recheck", "push_post",
               "alert_done", "aggregate"}
    \/ (InConnect /\ connRet = "push_recheck")

ScoreSeq == <<60, 35, 35, 50, 42, 47>>

\* The notifications the claim expects of ScoreSeq after n ticks.
ClaimedNotifs(n) ==
    IF n < 2 THEN <<>>
    ELSE IF n < 6 THEN << [tick |-> 2, kind |-> "degraded"] >>
    ELSE << [tick |-> 2, kind |-> "degraded"], [tick |-> 6, kind |-> "recovered"] >>

\* One "degraded" at the first 35, one "recovered" at the 50.
RecoveredAtFifty(n) ==
    IF n < 2 THEN <<>>
    ELSE IF n < 4 THEN << [tick |-> 2, kind |-> "degraded"] >>
    ELSE << [tick |-> 2, kind |-> "degraded"], [tick |-> 4, kind |-> "recovered"] >>

IsPrefixOfScoreSeq(h) ==
    Len(h) <= Len(ScoreSeq) /\ h = SubSeq(ScoreSeq, 1, Len(h))

\* C1 as claimed: feeding the scores 60, 35, 35, 50, 42, 47 tick by tick to
\* the alert logic, from alertSent = false, gives one "degraded"
\* notification at the first 35 and one "recovered" notification at the
\* 47, and none at the second 35, at 50 or at 42.
C1_AlertSequence ==
    IsPrefixOfScoreSeq(scoreHist) => notifs = ClaimedNotifs(Len(scoreHist))

\* C1: feeding the scores 60, 35, 35, 50, 42, 47 tick by tick to the alert
\* logic, from alertSent = false, gives one "degraded" notification at the
\* first 35 and one "recovered" notification at the 50 (50 > 45), and none
\* at 60, at the second 35, at 42 or at 47.
C1_AlertSequenceRecoveredAt50 ==
    IsPrefixOfScoreSeq(scoreHist) => notifs = RecoveredAtFifty(Len(scoreHist))

C1_Witness == scoreHist = ScoreSeq /\ Len(notifs) = 2 /\ ~alertSent

\* C2: since boot the notifications alternate, starting with "degraded"
\* (so no two "degraded" without a "recovered" between them), and a tick
\* hands over a "degraded" exactly when its score is below the threshold
\* with alertSent false, a "recovered" exactly when its score is above
\* threshold + margin with alertSent true.
C2_Alternation ==
    /\ \A i \in 1 .. Len(notifs) :
          notifs[i].kind = IF i % 2 = 1 THEN "degraded" ELSE "recovered"
    /\ AlertDecided =>
          /\ (pushKind = "degraded")
               <=> (score < HAPPINESS_THRESHOLD /\ ~alertBefore)
          /\ (pushKind = "recovered")
               <=> (score > HAPPINESS_THRESHOLD + RECOVERY_MARGIN /\ alertBefore)
          /\ (pushKind # "none")
               <=> (notifs # <<>> /\ notifs[Len(notifs)].tick = ticks)

C2_Witness ==
    /\ Len(notifs) = 3
    /\ pc = "aggregate"
    /\ pushOutcome = "begin_failed"

\* C3: a tick whose score is in the band 40..45, or below 40 while already
\* alerting, or above 45 while normal, leaves alertSent as it was and
\* sends no notification.
C3_NoTransition ==
    (ticks > 0
       /\ \/ score \in HAPPINESS_THRESHOLD .. (HAPPINESS_THRESHOLD + RECOVERY_MARGIN)
          \/ (score < HAPPINESS_THRESHOLD /\ alertBefore)
          \/ (score > HAPPINESS_THRESHOLD + RECOVERY_MARGIN /\ ~alertBefore))
    => /\ alertSent = alertBefore
       /\ pushKind = "none"
       /\ \A i \in 1 .. Len(notifs) : notifs[i].tick # ticks

C3_Witness ==
    /\ ticks > 1
    /\ score = HAPPINESS_THRESHOLD + RECOVERY_MARGIN
    /\ alertBefore
    /\ alertSent

\* C4: the score of a tick is an integer in 0..100.
C4_ScoreInRange == pc = "alert" => score \in 0 .. 100

\* C5: the score of (100, 100) is 100 and the score of (0, 0) is 0.
C5_ScoreEndpoints ==
    pc = "alert" =>
       /\ (soilPct = 100 /\ lightPct = 100) => score = 100
       /\ (soilPct = 0 /\ lightPct = 0) => score = 0

\* C6: the score does not decrease when one percentage grows and the other
\* stays: the tick's score is at most the score of every larger soilPct
\* with the same lightPct, and of every larger lightPct with the same
\* soilPct.
C6_ScoreMonotone ==
    pc = "alert" =>
       /\ \A s2 \in soilPct .. 100 : score <= Score(s2, lightPct)
       /\ \A l2 \in lightPct .. 100 : score <= Score(soilPct, l2)

C6_Witness == pc = "alert" /\ soilPct = 37 /\ lightPct = 64

\* C7: for every raw value, far below and far above the calibration points
\* included, both percentages are in 0..100.
C7_PctInRange ==
    pc = "alert" => (soilPct \in 0 .. 100 /\ lightPct \in 0 .. 100)

C7_Witness == pc = "alert" /\ soilRaw = INT_MIN /\ ldrRaw = INT_MIN

\* C8: over the codes of the converter, soilToPct is 0 at the dry code 2300
\* and 100 at the wet code 700 and does not increase with raw; lightToPct
\* is 0 at the dark code 450 and 100 at the bright code 3000 and does not
\* decrease with raw; between the two points each is the truncated linear
\* interpolation.
C8_TwoPointMap ==
    (pc = "alert" /\ soilRaw \in AdcCodes /\ ldrRaw \in AdcCodes) =>
       /\ soilRaw = SOIL_DRY_RAW => soilPct = 0
       /\ soilRaw = SOIL_WET_RAW => soilPct = 100
       /\ ldrRaw = LDR_DARK_RAW => lightPct = 0
       /\ ldrRaw = LDR_BRIGHT_RAW => lightPct = 100
       /\ soilRaw < ADC_MAX => \A v \in soilToPct(soilRaw + 1) : v <= soilPct
       /\ ldrRaw < ADC_MAX => \A v \in lightToPct(ldrRaw + 1) : v >= lightPct
       /\ (SOIL_WET_RAW <= soilRaw /\ soilRaw <= SOIL_DRY_RAW) =>
             soilPct = ((SOIL_DRY_RAW - soilRaw) * 100)
                          \div (SOIL_DRY_RAW - SOIL_WET_RAW)
       /\ (LDR_DARK_RAW <= ldrRaw /\ ldrRaw <= LDR_BRIGHT_RAW) =>
             lightPct = ((ldrRaw - LDR_DARK_RAW) * 100)
                           \div (LDR_BRIGHT_RAW - LDR_DARK_RAW)

C8_Witness == pc = "alert" /\ soilRaw = 1234 /\ ldrRaw = 1234

\* C9: the sums and the count are those of the samples aggregated since
\* the last emission (or boot); at an emission the three averages are the
\* arithmetic means of exactly those samples, the sample of the emitting
\* tick being the last of them; after the emission the sums and the count
\* are 0; since boot every aggregated sample is in one emission or in the
\* open window.
C9_EmissionMeans ==
    /\ aggCount = Len(window)
    /\ aggSoilSum = SumSeq(SoilOf(window))
    /\ aggLightSum = SumSeq(LightOf(window))
    /\ aggScoreSum = SumSeq(ScoreOf(window))
    /\ accBoot = emittedCount + aggCount
    /\ pc \in {"influx", "supabase", "reset"} =>
          /\ window # <<>>
          /\ window[Len(window)] = ThisSample
          /\ IsMean(avgSoil, SoilOf(window))
          /\ IsMean(avgLight, LightOf(window))
          /\ IsMean(avgScore, ScoreOf(window))
    /\ (pc = "render" /\ avgSoil # NoAvg) =>
          /\ aggSoilSum = 0 /\ aggLightSum = 0 /\ aggScoreSum = 0
          /\ aggCount = 0

C9_Witness == pc = "reset" /\ emissions = 1 /\ emittedCount = 2 /\ avgSoil[1] > 0

InEmission == pc \in {"influx", "supabase", "reset"}

\* The tick is about to render, or has rendered, without having emitted.
TickDidNotEmit == pc = "render" /\ avgSoil = NoAvg

C11_CountAndDivisors ==
    /\ aggCount >= 0
    /\ InEmission =>
          /\ sinceEmit >= LOG_INTERVAL_MS
          /\ aggCount > 0
          /\ avgSoil[2] > 0 /\ avgLight[2] > 0 /\ avgScore[2] > 0
    /\ TickDidNotEmit =>
          /\ influxOutcome = "none" /\ supaOutcome = "none"
          /\ influxPayload = <<>> /\ supaPayload = <<>>
          /\ aggCount = Len(window) /\ aggCount > 0
    /\ sends.influx <= emitCycles /\ sends.supabase <= emitCycles

C11_SkipLeavesWindow ==
    (pc = "emit" /\ pc' # pc /\ ~(sinceEmit >= LOG_INTERVAL_MS /\ aggCount > 0))
        => /\ pc' = "render"
           /\ UNCHANGED <<aggVars, sinkVars, sends, window, avgSoil, avgLight,
                          avgScore>>

\* C11: the emission step computes the averages, delivers and resets only
\* when at least LOG_INTERVAL_MS have passed since the previous emission (or
\* since boot) and aggCount > 0; otherwise it leaves the sums, aggCount and
\* lastSendMs unchanged and delivers nothing.  No average is ever computed
\* with a zero divisor, and aggCount is never negative.
C11_EmitOnlyWhenDue == []C11_CountAndDivisors /\ [][C11_SkipLeavesWindow]_vars

\* A tick that did not emit, after an emission earlier in the same boot.
C11_Witness == TickDidNotEmit /\ emissions = 1 /\ aggCount = 1

\* The tick has left its emission cycle: the window was reset.
EmissionDone == pc \in {"render", "sample"} /\ avgSoil # NoAvg

\* C12: in every emission cycle sendToSupabase is called whatever way
\* sendToInflux ended (HTTP 204, HTTP 500, another status, transport or
\* begin failure, skipped with the link down).
C12_SupabaseWhateverInflux ==
    /\ pc = "supabase" => influxOutcome \in InfluxResults \cup {"skipped"}
    /\ (pc = "reset" \/ EmissionDone) =>
          /\ influxOutcome \in InfluxResults \cup {"skipped"}
          /\ supaOutcome \in SupabaseResults \cup {"skipped"}
          /\ sends.influx = emitCycles
          /\ sends.supabase = emitCycles

\* sendToInflux got HTTP 500 and sendToSupabase was called and got 201.
C12_Witness ==
    pc = "reset" /\ influxOutcome = "http_500" /\ supaOutcome = "http_201"

C13_WindowDuringAndAfter ==
    /\ InEmission =>
          /\ emissions + 1 = emitCycles
          /\ aggCount = Len(window) /\ aggCount > 0
          /\ aggSoilSum = SumSeq(SoilOf(window))
          /\ aggLightSum = SumSeq(LightOf(window))
          /\ aggScoreSum = SumSeq(ScoreOf(window))
    /\ ~InEmission => emissions = emitCycles
    /\ EmissionDone =>
          /\ aggSoilSum = 0 /\ aggLightSum = 0 /\ aggScoreSum = 0
          /\ aggCount = 0 /\ window = <<>>
          /\ lastSendMs = now
    /\ sends.influx <= emitCycles /\ sends.supabase <= emitCycles

C13_ClearedAfterBoth ==
    ((aggCount > 0 /\ aggCount' = 0) \/ lastSendMs' # lastSendMs)
        => \/ /\ pc = "reset" /\ pc' = "render"
              /\ influxOutcome # "none" /\ supaOutcome # "none"
              /\ sends.influx = emitCycles /\ sends.supabase = emitCycles
              /\ emissions' = emissions + 1
           \/ pc' = "setup"

\* C13: in every emission cycle the three sums, aggCount and lastSendMs are
\* reset exactly once, after sendToInflux and sendToSupabase have both
\* returned, whatever their outcomes; no sender is called a second time
\* with the same window's data.  (ESP.restart() also clears them.)
C13_ResetOncePerCycle ==
    []C13_WindowDuringAndAfter /\ [][C13_ClearedAfterBoth]_vars

\* The window was reset although both deliveries failed.
C13_Witness ==
    /\ pc = "render" /\ EmissionDone
    /\ influxOutcome = "http_500" /\ supaOutcome = "transport_error"
    /\ aggCount = 0 /\ emissions = 1

(***************************************************************************)
(* connectToWiFi and the senders.                                          *)
(***************************************************************************)
\* The fifth attempt's polling loop ran out with the link down.
Exhausted ==
    /\ InConnect
    /\ attempt = MAX_RETRY_ATTEMPTS
    /\ timeout = POLL_LIMIT
    /\ wifi # "connected"

\* The state of a fresh boot, but for the counters kept since power-on.
Rebooted ==
    /\ pc = "setup" /\ wifi = "disconnected"
    /\ millis = U32(0) /\ lastSendMs = U32(0)
    /\ alertSent = FALSE
    /\ aggSoilSum = 0 /\ aggLightSum = 0 /\ aggScoreSum = 0 /\ aggCount = 0
    /\ pushOutcome = "none" /\ influxOutcome = "none" /\ supaOutcome = "none"
    /\ sends = NoSends

C14_StepFromExhausted ==
    Exhausted =>
        \/ /\ Exhausted'
           /\ UNCHANGED <<pushVars, sinkVars, sends, restarts>>
        \/ /\ Rebooted'
           /\ restarts' = restarts + 1

\* C14: when connectToWiFi has used all MAX_RETRY_ATTEMPTS attempts without
\* a link, the only thing that follows is ESP.restart(): the restart is
\* enabled, and no step taken before it issues an alert or telemetry
\* request.
C14_ExhaustedRestarts ==
    /\ [](Exhausted /\ pc = "conn_loop" => ENABLED ConnRestart)
    /\ [][C14_StepFromExhausted]_vars

\* The device rebooted out of an alert send that found no link.
C14_Witness == pc = "setup" /\ restarts = 1 /\ abortedTicks = 1

\* C15 as claimed: every sender call that starts with the link down calls
\* connectToWiFi exactly once before it is abandoned: sendToInflux and
\* sendToSupabase that ended "skipped", sendPushoverAlert that ended
\* "no_link", have one connectToWiFi call each.
C15_ReconnectOnceEverySender ==
    /\ influxOutcome = "skipped" => connCalls["influx"] = 1
    /\ supaOutcome = "skipped" => connCalls["supabase"] = 1
    /\ pushOutcome = "no_link" => connCalls["push"] = 1

C15_CallsOfTheTick ==
    /\ connCalls["influx"] = 0 /\ connCalls["supabase"] = 0
    /\ connCalls["push"] <= 1
    /\ pushOutcome = "no_link" => connCalls["push"] = 1
    /\ influxOutcome = "skipped" => influxPayload = <<>>
    /\ supaOutcome = "skipped" => supaPayload = <<>>

C15_SenderWithoutLink ==
    (wifi # "connected" /\ pc' # pc) =>
        /\ pc = "push_entry" =>
              /\ pc' = "conn_start"
              /\ connCalls' = [connCalls EXCEPT !["push"] = 1]
              /\ pushOutcome' = "none"
        /\ pc = "push_recheck" =>
              /\ pc' = "alert_done"
              /\ pushOutcome' = "no_link"
              /\ UNCHANGED connCalls
        /\ pc = "influx" =>
              /\ pc' = "supabase"
              /\ influxOutcome' = "skipped" /\ influxPayload' = <<>>
              /\ UNCHANGED connCalls
        /\ pc = "supabase" =>
              /\ pc' = "reset"
              /\ supaOutcome' = "skipped" /\ supaPayload' = <<>>
              /\ UNCHANGED connCalls

\* C15, amended: sendPushoverAlert that starts with the link down calls
\* connectToWiFi exactly once and, if the link is down when that call has
\* returned, abandons the alert without a request; sendToInflux and
\* sendToSupabase that start with the link down call no connectToWiFi and
\* are abandoned at once as skipped, without a request.
C15_ReconnectOnlyForAlert ==
    []C15_CallsOfTheTick /\ [][C15_SenderWithoutLink]_vars

\* In one tick the alert was abandoned after its one connectToWiFi call and
\* sendToInflux was skipped.
C15_Witness ==
    /\ pc = "supabase"
    /\ pushOutcome = "no_link" /\ connCalls["push"] = 1
    /\ influxOutcome = "skipped"

C16_EntryKeepsLink ==
    (pc = "conn_start" /\ wifi = "connected")
        => (wifi' = "connected" /\ attempt' = 0)

\* C16: connectToWiFi entered while the link is Connected leaves the link
\* Connected and uses no attempt.
C16_ConnectIdempotent == [][C16_EntryKeepsLink]_vars

(***************************************************************************)
(* The bodies sent.                                                        *)
(***************************************************************************)
\* C17: the body sent to Supabase carries soil_pct = the soil average,
\* ldr_pct = the light average and happiness = (int) of the score average,
\* and its ldr_pct equals the ldr_pct sent to InfluxDB in the same cycle.
C17_SupabaseFields ==
    supaPayload # <<>> =>
        /\ supaPayload[1].soil_pct = Tenths(avgSoil)
        /\ supaPayload[1].ldr_pct = Tenths(avgLight)
        /\ supaPayload[1].happiness = IntOf(avgScore)
        /\ influxPayload # <<>> =>
              supaPayload[1].ldr_pct = influxPayload[1].ldr_pct

(***************************************************************************)
(* The mood.                                                               *)
(***************************************************************************)
\* C18: the mood drawn is HAPPY iff score >= 70, OK iff 45 <= score < 70,
\* ANGRY iff 25 <= score < 45, DEAD iff score < 25: exactly one mood for
\* every tick.
C18_MoodBands ==
    mood # "none" =>
        /\ mood \in {"HAPPY", "OK", "ANGRY", "DEAD"}
        /\ mood = "HAPPY" <=> score >= 70
        /\ mood = "OK" <=> (45 <= score /\ score < 70)
        /\ mood = "ANGRY" <=> (25 <= score /\ score < 45)
        /\ mood = "DEAD" <=> score < 25

\* The face for a score on a band's lower edge.
C18_Witness == pc = "sample" /\ mood = "OK" /\ score = 45

(***************************************************************************)
(* alertSent and the window.                                               *)
(***************************************************************************)
\* The tick is in its alert logic, sendPushoverAlert and the connectToWiFi
\* it calls included.
InAlertCheck ==
    \/ pc \in {"alert", "push_entry", "push_recheck", "push_post", "alert_done"}
    \/ (InConnect /\ connRet = "push_recheck")

C19_AlertCheckKeepsWindow == InAlertCheck => UNCHANGED aggVars

C19_Frames ==
    /\ ~InAlertCheck => alertSent' = alertSent
    /\ (InAlertCheck /\ pc' # "setup") => UNCHANGED <<aggVars, window>>
    /\ (alertSent /\ ~alertSent') =>
          /\ InAlertCheck
          /\ score > HAPPINESS_THRESHOLD + RECOVERY_MARGIN

ConnMeasure ==
    IF pc = "conn_start" THEN 0
    ELSE IF pc = "conn_poll" THEN attempt * (POLL_LIMIT + 2) + timeout
    ELSE attempt * (POLL_LIMIT + 2) + POLL_LIMIT + 1

C20_Bounded ==
    InConnect =>
        /\ attempt \in 0 .. MAX_RETRY_ATTEMPTS
        /\ timeout \in 0 .. POLL_LIMIT
        /\ ConnMeasure <= MAX_RETRY_ATTEMPTS * (POLL_LIMIT + 2) + POLL_LIMIT + 1
        /\ ENABLED (ConnStart \/ ConnBegin \/ ConnPoll \/ ConnCheck \/ ConnRestart)

C20_StepOrExit ==
    /\ (InConnect /\ InConnect' /\ <<pc, attempt, timeout>>' # <<pc, attempt, timeout>>)
          => ConnMeasure' > ConnMeasure
    /\ (InConnect /\ ~InConnect') =>
          \/ /\ pc' = connRet /\ wifi' = "connected"
             /\ attempt \in 1 .. MAX_RETRY_ATTEMPTS
             /\ restarts' = restarts
          \/ /\ Rebooted' /\ restarts' = restarts + 1
             /\ attempt = MAX_RETRY_ATTEMPTS /\ timeout = POLL_LIMIT
             /\ wifi # "connected"

\* C20: connectToWiFi always terminates: it makes at most
\* MAX_RETRY_ATTEMPTS attempts, each polling at most 20 times; every step
\* of the call takes it further, a next step is always possible, the call
\* is left whenever it was entered, and it ends in exactly one of two ways:
\* a return with the link Connected, or ESP.restart() after the fifth
\* failed attempt.
C20_ConnectTerminates ==
    /\ []C20_Bounded
    /\ [][C20_StepOrExit]_vars
    /\ InConnect ~> ~InConnect

\* The link comes up in the last poll of the last attempt.
C20_Witness ==
    /\ pc = "conn_poll" /\ attempt = MAX_RETRY_ATTEMPTS
    /\ timeout = POLL_LIMIT /\ wifi = "connected"

(***************************************************************************)
(* Emission keeps happening.                                               *)
(***************************************************************************)
\* A tick has read its sample with a whole logging interval gone since the
\* last window reset (or boot).
DueTick == pc = "alert" /\ sinceEmit >= LOG_INTERVAL_MS

\* The emission of the tick is through: the window is reset.
WindowWasReset == pc = "render" /\ EmissionDone /\ aggCount = 0 /\ sinceEmit = 0

C21_DueEmits ==
    (pc = "emit" /\ sinceEmit >= LOG_INTERVAL_MS /\ pc' # pc) =>
        /\ pc' = "influx"
        /\ emitCycles' = emitCycles + 1
        /\ avgSoil' = AvgOf(aggSoilSum, aggCount)
        /\ avgLight' = AvgOf(aggLightSum, aggCount)
        /\ avgScore' = AvgOf(aggScoreSum, aggCount)

\* C21: once LOG_INTERVAL_MS have passed since the last emission, the next
\* tick's emission step computes the averages, and the tick goes on to
\* reset the window, with the link up or down and whatever the senders
\* return; only ESP.restart() in the tick's alert send comes before it.
\* With ticks that keep coming and time that keeps advancing, emission
\* therefore happens again and again.
C21_EmissionWhenDue ==
    /\ [][C21_DueEmits]_vars
    /\ DueTick ~> (WindowWasReset \/ pc = "setup")

\* The second emission of a boot, made with the link down all along.
C21_Witness ==
    /\ WindowWasReset /\ emissions = 2
    /\ influxOutcome = "skipped" /\ supaOutcome = "skipped"

(***************************************************************************)
(* alertSent after a send that failed, and after the restart.              *)
(***************************************************************************)
C22_SetOnReturn ==
    (pc = "alert_done" /\ pushKind = "degraded" /\ pc' # pc) =>
        (alertSent' /\ pc' = "aggregate")

C22_NoSecondDegraded ==
    /\ (pushKind = "degraded" /\ pc \in {"aggregate", "emit", "influx",
                                         "supabase", "reset", "render"})
          => alertSent
    /\ pushKind = "degraded" => ~alertBefore
    /\ (AlertDecided /\ alertBefore /\ score < HAPPINESS_THRESHOLD)
          => (pushKind = "none" /\ pushOutcome = "none" /\ alertSent)

\* C22: when sendPushoverAlert returns from a "degraded" notification,
\* alertSent is set to true whatever way it returned (HTTP error status,
\* transport failure, http.begin failure, abort with the link down); a tick
\* below the threshold that starts with alertSent true sends nothing, so
\* the failed notification is not attempted again in the same excursion.
C22_SetWhateverOutcome ==
    []C22_NoSecondDegraded /\ [][C22_SetOnReturn]_vars

\* A "degraded" notification was abandoned with the link down, and
\* alertSent is set.
C22_Witness ==
    /\ pc = "aggregate" /\ pushKind = "degraded"
    /\ pushOutcome = "no_link" /\ alertSent

\* The tick's alert logic has decided on the first score below the
\* threshold since boot.
FirstLowOfBoot ==
    /\ AlertDecided
    /\ score < HAPPINESS_THRESHOLD
    /\ \A i \in 1 .. Len(scoreHist) - 1 : scoreHist[i] >= HAPPINESS_THRESHOLD

C23_RestartInSend ==
    (pc = "conn_loop" /\ connRet = "push_recheck" /\ pc' = "setup") =>
        /\ attempt = MAX_RETRY_ATTEMPTS /\ wifi # "connected"
        /\ alertSent = alertBefore
        /\ accTicks + abortedTicks + 1 = ticks
        /\ aggCount = Len(window)
        /\ avgSoil = NoAvg /\ influxOutcome = "none" /\ supaOutcome = "none"
        /\ pushOutcome = "none"
        /\ Rebooted'
        /\ window' = <<>> /\ emissions' = 0 /\ emitCycles' = 0
        /\ accTicks' = accTicks

\* C23: when an alert send starts with the link down and every connection
\* attempt fails, ESP.restart() comes before alertSent is updated and
\* before the tick's sample is accumulated or any emission runs; after it
\* alertSent is false, the sums and aggCount are 0 and lastSendMs is 0, the
\* window's samples are gone without an emission, and the first tick below
\* the threshold sends a "degraded" notification again.
C23_RestartDiscards ==
    /\ [][C23_RestartInSend]_vars
    /\ [](FirstLowOfBoot => (pushKind = "degraded" /\ ~alertBefore))

\* The first tick was accumulated, the second ended in the restart out of
\* its alert send, and the third, after the reboot, sends "degraded" with
\* an empty window.
C23_Witness ==
    /\ restarts = 1 /\ abortedTicks = 1 /\ accTicks = 1 /\ ticks = 3
    /\ pc = "push_entry" /\ pushKind = "degraded"
    /\ aggCount = 0 /\ sends = NoSends

(***************************************************************************)
(* The window test across the wrap of millis().                            *)
(***************************************************************************)
C24_FiresExactlyWhenDue ==
    (pc = "emit" /\ pc' # pc) =>
        /\ pc' \in {"influx", "render"}
        /\ pc' = "influx" <=> sinceEmit >= LOG_INTERVAL_MS

\* C24: the window test is (now - lastSendMs) mod 2^32 >= LOG_INTERVAL_MS:
\* also when millis() wraps around between two emissions, the emission
\* fires on the first tick at which the time really gone since the last
\* emission reaches LOG_INTERVAL_MS and never earlier, so two emissions are
\* at least LOG_INTERVAL_MS apart.
C24_WrapSafeWindow ==
    /\ [](InEmission => sinceEmit >= LOG_INTERVAL_MS)
    /\ [](U32Sub(millis, lastSendMs) = U32(sinceEmit))
    /\ [][C24_FiresExactlyWhenDue]_vars

\* An emission with now numerically below lastSendMs, exactly
\* LOG_INTERVAL_MS after the last one.
C24_Witness ==
    /\ InEmission
    /\ ~U32Geq(now, lastSendMs)
    /\ sinceEmit = LOG_INTERVAL_MS

====
